---- MODULE Spec2Model ----
(***************************************************************************)
(* The gRPC facade of the ledger commit log (internal/web/server.go):      *)
(* unary Produce / Consume, ProduceStream and ConsumeStream, running       *)
(* concurrently against one CommitLog and one Authorizer.                  *)
(*                                                                         *)
(* CommitLog and Authorizer are interfaces in server.go; their             *)
(* implementations are modelled from the specification (sections 4.4,      *)
(* 4.5, 5, 6 and 7).                                                       *)
(***************************************************************************)
EXTENDS Integers, Sequences, FiniteSets, TLC

\* ------------------------------------------------------------------ bounds
\* Largest number of records the log ever holds.
MaxLog == 2

\* Largest number of records the log holds while only readers run beside the
\* writer (SpecReaders).
MaxReadLog == 1

\* Payloads, subjects and handler goroutines the environment draws from.
Values == {"a", "b"}
Subjects == {"root", "reader", "nobody"}
Handlers == {"h1", "h2"}

\* Offsets a request may carry: every written offset and one past the end.
Offsets == 0..MaxLog

\* --------------------------------------------------------------- constants
\* ACL policy keywords.
objectWildcard == "*"
produceAction == "produce"
consumeAction == "consume"

\* Error values. Nil is Go's nil error.
Nil == "nil"
ErrOffsetOutOfRange == "OffsetOutOfRange"
ErrNotLeader == "NotLeader"
ErrTimeout == "Timeout"
ErrCorruptState == "CorruptState"
ErrPermissionDenied == "PermissionDenied"
ErrSend == "SendFailed"
ErrRecv == "RecvFailed"

\* A nil response pointer, and a response carrying x.
NoResponse == <<>>
Response(x) == <<x>>

VARIABLES
    log,         \* CommitLog: payloads ever appended; offset o is log[o+1]
    lowest,      \* CommitLog: lowest retained offset (advanced by Truncate)
    isLeader,    \* CommitLog: whether this node is the consensus leader
    corrupt,     \* CommitLog: on-disk structures found inconsistent
    authorizer,  \* Config.Authorizer != nil
    policy,      \* Authorizer: the <<subject, action>> pairs it grants
    h,           \* unary handler goroutines (Produce / Consume calls)
    ps,          \* the ProduceStream handler
    cs,          \* the ConsumeStream handler
    cancelled,   \* the ConsumeStream's stream.Context() is done
    sent,        \* records sent on the ConsumeStream, in order
    acked,       \* <<offset, payload>> of every Produce that returned a response
    assigned,    \* offsets the log assigned, in order, and whether Produce returned them
    cluster      \* the consensus group: every node's entries, commit index and Log

vars == <<log, lowest, isLeader, corrupt, authorizer, policy, h, ps, cs,
          cancelled, sent, acked, assigned, cluster>>

logVars == <<log, lowest, isLeader, corrupt>>
authVars == <<authorizer, policy>>
csVars == <<cs, cancelled, sent>>

\* ---------------------------------------------------------------- CommitLog
\* The record Read returns for offset o.
RecordAt(o) == [value |-> log[o + 1], offset |-> o]

\* Log.Read(offset): the record, or OffsetOutOfRange when the offset is past
\* the end or below the lowest retained offset.
Read(o) ==
    IF corrupt THEN [record |-> NoResponse, err |-> ErrCorruptState]
    ELSE IF o < lowest \/ o >= Len(log)
         THEN [record |-> NoResponse, err |-> ErrOffsetOutOfRange]
         ELSE [record |-> Response(RecordAt(o)), err |-> Nil]

\* Log.Append(record) behind the consensus layer: the possible outcomes.
\* A non-leader rejects with NotLeader before anything reaches its Log; the
\* leader assigns the next offset under the log's lock; on Timeout the entry
\* may still have committed.
AppendOutcomes ==
    IF ~isLeader
    THEN {[offset |-> 0, err |-> ErrNotLeader, commit |-> FALSE]}
    ELSE IF corrupt
         THEN {[offset |-> 0, err |-> ErrCorruptState, commit |-> FALSE]}
         ELSE {[offset |-> Len(log), err |-> Nil, commit |-> TRUE],
               [offset |-> 0, err |-> ErrTimeout, commit |-> FALSE],
               [offset |-> 0, err |-> ErrTimeout, commit |-> TRUE]}

\* The handlers' results stop being fresh once the log changes.
Stale(hh) == [j \in DOMAIN hh |-> [hh[j] EXCEPT !.fresh = FALSE]]

\* The effect of one Append outcome on the log.
Commit(out, v) ==
    /\ out.commit => Len(log) < MaxLog
    /\ log' = IF out.commit THEN Append(log, v) ELSE log
    /\ UNCHANGED <<lowest, isLeader, corrupt>>

\* Log.Truncate(k): drops every record below k.
Truncate(k) ==
    /\ k > lowest
    /\ k <= Len(log)
    /\ lowest' = k
    /\ h' = Stale(h)
    /\ UNCHANGED <<log, isLeader, corrupt, authVars, ps, csVars, acked, assigned, cluster>>

\* A leader election: this node gains or loses leadership.
LeaderChange ==
    /\ isLeader' = ~isLeader
    /\ UNCHANGED <<log, lowest, corrupt, authVars, h, ps, csVars, acked,
                   assigned, cluster>>

\* --------------------------------------------------------------- Authorizer
Grants == {<<"root", produceAction>>, <<"root", consumeAction>>,
           <<"reader", consumeAction>>}

\* Authorizer.Authorize(subject, object, action): the subject nobody holds no
\* grant.
Authorize(s, obj, act) ==
    IF <<s, act>> \in policy THEN Nil ELSE ErrPermissionDenied

\* The operator of the ACL revokes every grant of subject s.
Revoke(s) ==
    /\ authorizer
    /\ \E g \in policy : g[1] = s
    /\ policy' = {g \in policy : g[1] # s}
    /\ UNCHANGED <<logVars, authorizer, h, ps, csVars, acked, assigned, cluster>>

\* ------------------------------------------------------------ unary handlers
IdleHandler ==
    [pc |-> "idle", op |-> "none", subject |-> "root", value |-> "a",
     offset |-> 0, authCalled |-> FALSE, authErr |-> Nil, calls |-> 0,
     logRet |-> NoResponse, logErr |-> Nil, res |-> NoResponse, err |-> Nil,
     known |-> FALSE, fresh |-> FALSE]

\* A faulty authorization block: Authorize is never consulted.
ProduceAuthorizeSkip(s) == Nil

\* Produce, lines 65-70: the error of the authorization block (nil when no
\* Authorizer is configured).
ProduceAuthorize(s) ==
    IF authorizer THEN Authorize(s, objectWildcard, consumeAction) ELSE Nil

\* Faulty returns: one that answers with a response whatever Append said, one
\* that reports the offset after the one Append assigned.
ProduceReturnSwallow(offset, err) == [res |-> Response(offset), err |-> Nil]
ProduceReturnNext(offset, err) ==
    IF err # Nil THEN [res |-> NoResponse, err |-> err]
    ELSE [res |-> Response(offset + 1), err |-> Nil]

\* Produce, lines 73-77: what the handler returns for Append's (offset, err).
ProduceReturn(offset, err) ==
    IF err # Nil THEN [res |-> NoResponse, err |-> err]
    ELSE [res |-> Response(offset), err |-> Nil]

\* A faulty authorization block: Authorize is never consulted.
ConsumeAuthorizeSkip(s) == Nil

\* Consume, lines 81-86.
ConsumeAuthorize(s) ==
    IF authorizer THEN Authorize(s, objectWildcard, consumeAction) ELSE Nil

\* A faulty log call: Consume appends a record, as Produce does.
ConsumeLogCallAppend(v) ==
    /\ Len(log) < MaxLog
    /\ log' = Append(log, v)
    /\ UNCHANGED <<lowest, isLeader, corrupt>>

\* Consume, line 88: the handler's only call on the commit log is Read, which
\* leaves the log as it is.
ConsumeLogCall(v) == UNCHANGED <<log, lowest, isLeader, corrupt>>

\* Consume, lines 89-95: what the handler returns for Read's (record, err).
ConsumeReturn(record, err) ==
    IF err # Nil THEN [res |-> NoResponse, err |-> err]
    ELSE [res |-> record, err |-> Nil]

\* The payloads Produce responses acknowledged for offset o.
AckedAt(o) == {p[2] : p \in {q \in acked : q[1] = o}}

\* What a Produce that got outcome out from Append and returned ret leaves
\* behind: the acknowledged <<offset, payload>>, and the offset the log
\* assigned, which the caller does not learn when the commit timed out.
Answer(ret, out, v) ==
    /\ acked' = IF ret.res # NoResponse
                THEN acked \cup {<<ret.res[1], v>>}
                ELSE acked
    /\ assigned' = IF ret.res # NoResponse
                   THEN Append(assigned, [offset |-> ret.res[1], returned |-> TRUE])
                   ELSE IF out.commit
                        THEN Append(assigned, [offset |-> Len(log), returned |-> FALSE])
                        ELSE assigned

\* A client calls Produce(ctx, req) as subject s with payload v.
CallProduce(i, s, v) ==
    /\ h[i].pc \in {"idle", "done"}
    /\ h' = [h EXCEPT ![i] = [IdleHandler EXCEPT !.pc = "authorize",
                                 !.op = "Produce", !.subject = s, !.value = v]]
    /\ UNCHANGED <<logVars, authVars, ps, csVars, acked, assigned, cluster>>

\* Produce: the authorization block.
ProduceAuth(i) ==
    /\ h[i].pc = "authorize"
    /\ h[i].op = "Produce"
    /\ LET e == ProduceAuthorize(h[i].subject)
       IN h' = [h EXCEPT ![i] =
                  IF e # Nil
                  THEN [@ EXCEPT !.pc = "done", !.authCalled = authorizer,
                                 !.authErr = e, !.res = NoResponse, !.err = e]
                  ELSE [@ EXCEPT !.pc = "log", !.authCalled = authorizer]]
    /\ UNCHANGED <<logVars, authVars, ps, csVars, acked, assigned, cluster>>

\* Produce: CommitLog.Append and the return.
ProduceAppend(i) ==
    /\ h[i].pc = "log"
    /\ h[i].op = "Produce"
    /\ \E out \in AppendOutcomes :
        LET ret == ProduceReturn(out.offset, out.err)
        IN /\ Commit(out, h[i].value)
           /\ h' = [IF out.commit THEN Stale(h) ELSE h EXCEPT ![i] =
                      [@ EXCEPT !.pc = "done", !.calls = @ + 1,
                                !.logRet = IF out.err = Nil
                                           THEN Response(out.offset)
                                           ELSE NoResponse,
                                !.logErr = out.err,
                                !.res = ret.res, !.err = ret.err]]
           /\ Answer(ret, out, h[i].value)
    /\ UNCHANGED <<authVars, ps, csVars, cluster>>

\* Produce run to completion in one step by another client, subject s with
\* payload v: the authorization block, Append and the return.
WriterProduce(s, v) ==
    /\ ProduceAuthorize(s) = Nil
    /\ \E out \in AppendOutcomes :
        LET ret == ProduceReturn(out.offset, out.err)
        IN /\ out.commit
           /\ Commit(out, v)
           /\ h' = Stale(h)
           /\ Answer(ret, out, v)
    /\ UNCHANGED <<authVars, ps, csVars, cluster>>

\* A client calls Consume(ctx, req) as subject s for offset o.
CallConsume(i, s, o) ==
    /\ h[i].pc \in {"idle", "done"}
    /\ h' = [h EXCEPT ![i] = [IdleHandler EXCEPT !.pc = "authorize",
                                 !.op = "Consume", !.subject = s, !.offset = o,
                                 !.known = (AckedAt(o) # {})]]
    /\ UNCHANGED <<logVars, authVars, ps, csVars, acked, assigned, cluster>>

\* Consume: the authorization block.
ConsumeAuth(i) ==
    /\ h[i].pc = "authorize"
    /\ h[i].op = "Consume"
    /\ LET e == ConsumeAuthorize(h[i].subject)
           r == [res |-> NoResponse, err |-> e]
       IN h' = [h EXCEPT ![i] =
                  IF e # Nil
                  THEN [@ EXCEPT !.pc = "done", !.authCalled = authorizer,
                                 !.authErr = e, !.res = r.res, !.err = r.err,
                                 !.fresh = TRUE]
                  ELSE [@ EXCEPT !.pc = "log", !.authCalled = authorizer]]
    /\ UNCHANGED <<logVars, authVars, ps, csVars, acked, assigned, cluster>>

\* Consume: CommitLog.Read and the return.
ConsumeRead(i) ==
    /\ h[i].pc = "log"
    /\ h[i].op = "Consume"
    /\ LET out == Read(h[i].offset)
           ret == ConsumeReturn(out.record, out.err)
       IN h' = [h EXCEPT ![i] =
                      [@ EXCEPT !.pc = "done", !.calls = @ + 1,
                                !.logRet = out.record, !.logErr = out.err,
                                !.res = ret.res, !.err = ret.err,
                                !.fresh = TRUE]]
    /\ ConsumeLogCall(h[i].value)
    /\ UNCHANGED <<authVars, ps, csVars, acked, assigned, cluster>>

\* ------------------------------------------------------------ ProduceStream
IdleProduceStream ==
    [pc |-> "idle", subject |-> "root", value |-> "a", res |-> NoResponse,
     err |-> Nil, recvd |-> 0, appended |-> 0, responses |-> <<>>]

\* A client opens a ProduceStream as subject s.
StartProduceStream(s) ==
    /\ ps.pc = "idle"
    /\ ps' = [ps EXCEPT !.pc = "recv", !.subject = s]
    /\ UNCHANGED <<logVars, authVars, h, csVars, acked, assigned, cluster>>

\* ProduceStream, lines 101-104: stream.Recv() yields a request or fails.
PSRecv ==
    /\ ps.pc = "recv"
    /\ \/ \E v \in Values :
            ps' = [ps EXCEPT !.pc = "authorize", !.value = v,
                             !.recvd = @ + 1]
       \/ ps' = [ps EXCEPT !.pc = "returned", !.err = ErrRecv]
    /\ UNCHANGED <<logVars, authVars, h, csVars, acked, assigned, cluster>>

\* ProduceStream, line 106: this.Produce, its authorization block.
PSProduceAuth ==
    /\ ps.pc = "authorize"
    /\ LET e == ProduceAuthorize(ps.subject)
       IN ps' = IF e # Nil
                THEN [ps EXCEPT !.pc = "returned", !.err = e]
                ELSE [ps EXCEPT !.pc = "append"]
    /\ UNCHANGED <<logVars, authVars, h, csVars, acked, assigned, cluster>>

\* ProduceStream, lines 106-109: this.Produce, its Append and return.
PSProduceAppend ==
    /\ ps.pc = "append"
    /\ \E out \in AppendOutcomes :
        LET ret == ProduceReturn(out.offset, out.err)
        IN /\ Commit(out, ps.value)
           /\ ps' = IF ret.err # Nil
                    THEN [ps EXCEPT !.pc = "returned", !.err = ret.err,
                                    !.appended = IF out.commit THEN @ + 1 ELSE @]
                    ELSE [ps EXCEPT !.pc = "send", !.res = ret.res,
                                    !.appended = IF out.commit THEN @ + 1 ELSE @]
           /\ Answer(ret, out, ps.value)
           /\ h' = IF out.commit THEN Stale(h) ELSE h
    /\ UNCHANGED <<authVars, csVars, cluster>>

\* ProduceStream, lines 111-114: stream.Send(res) succeeds or fails.
PSSend ==
    /\ ps.pc = "send"
    /\ \/ ps' = [ps EXCEPT !.pc = "recv", !.res = NoResponse,
                           !.responses = Append(@, ps.res[1])]
       \/ ps' = [ps EXCEPT !.pc = "returned", !.err = ErrSend]
    /\ UNCHANGED <<logVars, authVars, h, csVars, acked, assigned, cluster>>

\* ------------------------------------------------------------ ConsumeStream
IdleConsumeStream ==
    [pc |-> "idle", subject |-> "root", start |-> 0, offset |-> 0,
     res |-> NoResponse, err |-> Nil, waited |-> FALSE, failed |-> FALSE,
     startedDone |-> FALSE, postReads |-> 0, postSends |-> 0]

\* Faulty selects: one that never looks at Done, one that always returns.
StreamSelectBlind(done) == "default"
StreamSelectEager(done) == "return"

\* ConsumeStream, lines 120-127: the select. The Done case is taken whenever
\* the context is done; default only when it is not.
StreamSelect(done) == IF done THEN "return" ELSE "default"

\* A faulty switch: OffsetOutOfRange ends the stream like any other error.
StreamSwitchTerminal(err) == IF err = Nil THEN "send" ELSE "return"

\* ConsumeStream, lines 129-135: the switch on Consume's error.
StreamSwitch(err) ==
    IF err = Nil THEN "send"
    ELSE IF err = ErrOffsetOutOfRange THEN "continue"
    ELSE "return"

\* A faulty advance: the offset is left where it was.
StreamAdvanceStuck(offset) == offset

\* ConsumeStream, line 142: req.Offset += 1.
StreamAdvance(offset) == offset + 1

\* Counts up to 2: the Reads and Sends performed with the context done.
Bump(n) == IF cancelled /\ n < 2 THEN n + 1 ELSE n

\* A client opens a ConsumeStream as subject s from offset o.
StartConsumeStream(s, o) ==
    /\ cs.pc = "idle"
    /\ cs' = [cs EXCEPT !.pc = "select", !.subject = s, !.start = o,
                        !.offset = o]
    /\ UNCHANGED <<logVars, authVars, h, ps, cancelled, sent, acked, assigned, cluster>>

\* The consumer cancels the stream's context.
Cancel ==
    /\ cs.pc \notin {"idle", "returned"}
    /\ ~cancelled
    /\ cancelled' = TRUE
    /\ UNCHANGED <<logVars, authVars, h, ps, cs, sent, acked, assigned, cluster>>

\* ConsumeStream: the top of an iteration.
CSSelect ==
    /\ cs.pc = "select"
    /\ cs' = IF StreamSelect(cancelled) = "return"
             THEN [cs EXCEPT !.pc = "returned", !.err = Nil]
             ELSE [cs EXCEPT !.pc = "authorize", !.startedDone = cancelled]
    /\ UNCHANGED <<logVars, authVars, h, ps, cancelled, sent, acked, assigned, cluster>>

\* ConsumeStream after this.Consume returned ret: the switch.
AfterConsume(c, ret) ==
    LET sw == StreamSwitch(ret.err)
    IN IF sw = "send" THEN [c EXCEPT !.pc = "send", !.res = ret.res]
       ELSE IF sw = "continue" THEN [c EXCEPT !.pc = "select", !.waited = TRUE]
       ELSE [c EXCEPT !.pc = "returned", !.err = ret.err]

\* ConsumeStream, line 128: this.Consume, its authorization block.
CSConsumeAuth ==
    /\ cs.pc = "authorize"
    /\ LET e == ConsumeAuthorize(cs.subject)
       IN cs' = IF e # Nil
                THEN AfterConsume([cs EXCEPT !.failed = TRUE],
                                  [res |-> NoResponse, err |-> e])
                ELSE [cs EXCEPT !.pc = "read"]
    /\ UNCHANGED <<logVars, authVars, h, ps, cancelled, sent, acked, assigned, cluster>>

\* ConsumeStream, lines 128-135: this.Consume, its Read and return.
CSConsumeRead ==
    /\ cs.pc = "read"
    /\ LET out == Read(cs.offset)
           ret == ConsumeReturn(out.record, out.err)
       IN cs' = AfterConsume(
                  [cs EXCEPT !.postReads = Bump(@),
                             !.failed = out.err \notin {Nil, ErrOffsetOutOfRange}],
                  ret)
    /\ ConsumeLogCall("a")
    /\ UNCHANGED <<authVars, h, ps, cancelled, sent, acked, assigned, cluster>>

\* ConsumeStream, lines 137-142: stream.Send(res) succeeds, and the offset
\* advances, or fails.
CSSend ==
    /\ cs.pc = "send"
    /\ \/ /\ cs' = [cs EXCEPT !.pc = "select", !.res = NoResponse,
                              !.offset = StreamAdvance(@),
                              !.postSends = Bump(@)]
          /\ sent' = Append(sent, cs.res[1])
       \/ /\ cs' = [cs EXCEPT !.pc = "returned", !.err = ErrSend,
                              !.failed = TRUE, !.postSends = Bump(@)]
          /\ sent' = sent
    /\ UNCHANGED <<logVars, authVars, h, ps, cancelled, acked, assigned, cluster>>

\* ------------------------------------------------------- consensus group
\* The replicated state machine of sections 4.5 and 5: every node keeps the
\* consensus entries it persisted, the index up to which it knows them
\* committed, and its Log, which it extends by applying committed entries.
Nodes == {"n1", "n2", "n3"}
NoLeader == "none"
Quorums == {Q \in SUBSET Nodes : 2 * Cardinality(Q) > Cardinality(Nodes)}

\* Largest consensus term an election may start.
MaxTerm == 2

InitialCluster ==
    [term |-> 0, leader |-> NoLeader,
     entries |-> [n \in Nodes |-> <<>>],
     commitIndex |-> [n \in Nodes |-> 0],
     applied |-> [n \in Nodes |-> <<>>],
     rolledBack |-> FALSE]

LastTerm(es) == IF Len(es) = 0 THEN 0 ELSE es[Len(es)].term

\* Node n's entries are at least as up to date as node m's.
UpToDate(n, m) ==
    LET a == cluster.entries[n]
        b == cluster.entries[m]
    IN \/ LastTerm(a) > LastTerm(b)
       \/ LastTerm(a) = LastTerm(b) /\ Len(a) >= Len(b)

\* The length of the longest common prefix of two entry sequences.
RECURSIVE Common(_, _)
Common(a, b) ==
    IF a = <<>> \/ b = <<>> \/ Head(a) # Head(b) THEN 0
    ELSE 1 + Common(Tail(a), Tail(b))

Min(a, b) == IF a < b THEN a ELSE b
Max(a, b) == IF a > b THEN a ELSE b

\* A faulty apply bound: every persisted entry counts as committed.
CommittedPersisted(n) == Len(cluster.entries[n])

\* The number of entries node n may apply: those it knows committed.
Committed(n) == cluster.commitIndex[n]

\* Leader election: n wins the votes of a quorum whose entries are no more up
\* to date than its own, and a new term begins.
Elect(n) ==
    /\ cluster.term < MaxTerm
    /\ cluster.leader # n
    /\ \E Q \in Quorums : n \in Q /\ \A m \in Q : UpToDate(n, m)
    /\ cluster' = [cluster EXCEPT !.term = @ + 1, !.leader = n]
    /\ UNCHANGED <<logVars, authVars, h, ps, csVars, acked, assigned>>

\* A writer's append reaches the leader, which proposes it as an entry of the
\* current term. A node that is not the leader proposes nothing.
Propose(n, v) ==
    /\ cluster.leader = n
    /\ Len(cluster.entries[n]) < MaxLog
    /\ cluster' = [cluster EXCEPT
                     !.entries[n] = Append(@, [term |-> cluster.term, value |-> v])]
    /\ UNCHANGED <<logVars, authVars, h, ps, csVars, acked, assigned>>

\* Replication from the leader to follower f: f drops the entries that
\* conflict with the leader's (uncommitted entries of a former leader),
\* persists the leader's next entry, and learns the leader's commit index
\* (its own never moves back). rolledBack records that entries were dropped.
Replicate(f) ==
    LET l == cluster.leader
        mine == cluster.entries[f]
        theirs == cluster.entries[l]
        k == Common(mine, theirs)
        new == IF k < Len(theirs) THEN SubSeq(theirs, 1, k + 1) ELSE mine
    IN /\ l \in Nodes
       /\ f # l
       /\ cluster' = [cluster EXCEPT
                        !.entries[f] = new,
                        !.rolledBack = @ \/ k < Len(mine),
                        !.commitIndex[f] =
                            Max(@, Min(cluster.commitIndex[l],
                                       IF k < Len(theirs) THEN k + 1 ELSE k))]
       /\ cluster' # cluster
       /\ UNCHANGED <<logVars, authVars, h, ps, csVars, acked, assigned>>

\* Quorum commit: the leader counts an entry of its own term as committed once
\* a quorum of nodes persisted it.
AdvanceCommit ==
    LET l == cluster.leader
    IN /\ l \in Nodes
       /\ \E i \in (cluster.commitIndex[l] + 1)..Len(cluster.entries[l]) :
            /\ cluster.entries[l][i].term = cluster.term
            /\ \E Q \in Quorums : \A m \in Q :
                  /\ Len(cluster.entries[m]) >= i
                  /\ SubSeq(cluster.entries[m], 1, i) = SubSeq(cluster.entries[l], 1, i)
            /\ cluster' = [cluster EXCEPT !.commitIndex[l] = i]
       /\ UNCHANGED <<logVars, authVars, h, ps, csVars, acked, assigned>>

\* Apply: node n appends its next committed entry to its Log; the offset is
\* the entry's position in the Log.
Apply(n) ==
    LET next == Len(cluster.applied[n]) + 1
    IN /\ next <= Committed(n)
       /\ cluster' = [cluster EXCEPT
                        !.applied[n] = Append(@, cluster.entries[n][next].value)]
       /\ UNCHANGED <<logVars, authVars, h, ps, csVars, acked, assigned>>

\* ------------------------------------------------------------ specifications
Init ==
    /\ log = <<>>
    /\ lowest = 0
    /\ isLeader \in BOOLEAN
    /\ corrupt \in BOOLEAN
    /\ authorizer \in BOOLEAN
    /\ policy = Grants
    /\ h = [i \in Handlers |-> IdleHandler]
    /\ ps = IdleProduceStream
    /\ cs = IdleConsumeStream
    /\ cancelled = FALSE
    /\ sent = <<>>
    /\ acked = {}
    /\ assigned = <<>>
    /\ cluster = InitialCluster

\* A client that calls Produce on handler goroutine i as a subject of S.
Producer(i, S) ==
    \/ \E s \in S, v \in Values : CallProduce(i, s, v)
    \/ ProduceAuth(i)
    \/ ProduceAppend(i)

\* A client that calls Consume on handler goroutine i as a subject of S for
\* an offset of O.
Consumer(i, S, O) ==
    \/ \E s \in S, o \in O : CallConsume(i, s, o)
    \/ ConsumeAuth(i)
    \/ ConsumeRead(i)

\* A background writer: other clients' Produce calls.
Writer == \E s \in Subjects, v \in Values : WriterProduce(s, v)

ProduceStream ==
    \/ \E s \in Subjects : StartProduceStream(s)
    \/ PSRecv
    \/ PSProduceAuth
    \/ PSProduceAppend
    \/ PSSend

ConsumeStreamStep ==
    \/ CSSelect
    \/ CSConsumeAuth
    \/ CSConsumeRead
    \/ CSSend

ConsumeStream ==
    \/ \E s \in Subjects, o \in Offsets : StartConsumeStream(s, o)
    \/ ConsumeStreamStep
    \/ Cancel

\* One client calling Produce and Consume, beside the writer.
NextUnary ==
    \/ Producer("h1", Subjects)
    \/ Consumer("h1", Subjects, Offsets)
    \/ Writer
    \/ \E k \in 1..MaxLog : Truncate(k)
    \/ LeaderChange

SpecUnary == Init /\ [][NextUnary]_vars

\* Readers only: two unary Consume handlers, one of them for a subject the
\* Authorizer may refuse, and a ConsumeStream from offset 0, beside the writer.
NextReaders ==
    \/ Consumer("h1", {"root", "nobody"}, 0..MaxReadLog)
    \/ Consumer("h2", {"reader"}, 0..MaxReadLog)
    \/ StartConsumeStream("reader", 0)
    \/ ConsumeStreamStep
    \/ (Len(log) < MaxReadLog /\ Writer)
    \/ \E k \in 1..MaxReadLog : Truncate(k)

SpecReaders == Init /\ [][NextReaders]_vars

\* Concurrent writers: two unary Produce handlers and a ProduceStream.
NextWriters ==
    \/ Producer("h1", {"root"})
    \/ Producer("h2", {"root"})
    \/ ProduceStream
    \/ LeaderChange

SpecWriters == Init /\ [][NextWriters]_vars

\* A single sequential producer: one ProduceStream and no other writer.
NextProducer ==
    \/ ProduceStream
    \/ LeaderChange

SpecProducer == Init /\ [][NextProducer]_vars

\* A ConsumeStream tailing the log beside the writer.
NextStream ==
    \/ ConsumeStream
    \/ Writer
    \/ \E k \in 1..MaxLog : Truncate(k)
    \/ \E s \in Subjects : Revoke(s)

SpecStream == Init /\ [][NextStream]_vars

\* The same, with the handler loop of the ConsumeStream scheduled fairly: a
\* goroutine that can take its next step eventually takes it.
FairSpecStream == SpecStream /\ WF_vars(ConsumeStreamStep)

\* The consensus group under concurrent writers and leader changes. The nodes
\* are interchangeable, so the first leader is taken to be n1.
NextCluster ==
    \/ \E n \in Nodes : (cluster.term = 0 => n = "n1") /\ Elect(n)
    \/ \E n \in Nodes, v \in Values : Propose(n, v)
    \/ \E f \in Nodes : Replicate(f)
    \/ AdvanceCommit
    \/ \E n \in Nodes : Apply(n)

\* The group is observed on its own: the facade in front of it stays idle, on
\* a healthy node with an Authorizer configured.
InitCluster == Init /\ ~corrupt /\ authorizer /\ ~isLeader

SpecCluster == InitCluster /\ [][NextCluster]_vars

\* ------------------------------------------------------------------ claims
\* C1: in ConsumeStream, when the read of the current offset (this.Consume)
\* fails with OffsetOutOfRange the stream does not return, sends nothing and
\* goes back to the top of the loop with the offset unchanged, so the next
\* Read is at the same offset; the offset only moves with a successful Send.
\* When the read fails with any other error, from Read or from the
\* authorization inside Consume, the stream returns exactly that error.
C1_RetryOutOfRange ==
    [][/\ (cs.pc = "read" /\ cs' # cs /\ Read(cs.offset).err = ErrOffsetOutOfRange)
          => (cs'.pc = "select" /\ cs'.offset = cs.offset /\ sent' = sent)
       /\ (cs.pc = "read" /\ cs' # cs
             /\ Read(cs.offset).err \notin {Nil, ErrOffsetOutOfRange})
          => (cs'.pc = "returned" /\ cs'.err = Read(cs.offset).err /\ sent' = sent)
       /\ (cs.pc = "authorize" /\ cs' # cs /\ ConsumeAuthorize(cs.subject) # Nil)
          => (cs'.pc = "returned" /\ cs'.err = ConsumeAuthorize(cs.subject)
              /\ sent' = sent)
       /\ (cs.pc # "idle" /\ cs'.offset # cs.offset)
          => (cs.pc = "send" /\ Len(sent') = Len(sent) + 1)
      ]_vars

\* The stream retried its starting offset after OffsetOutOfRange and then read
\* a record there.
C1_Witness == cs.waited /\ cs.pc = "send" /\ cs.offset = cs.start

\* C3: ConsumeStream returns nil only when its context was cancelled, and as
\* long as no Consume failed with an error other than OffsetOutOfRange and no
\* Send failed, it returns only on cancellation, and then with nil: reaching
\* the end of the log never ends it.
C3_ReturnsOnlyOnCancel ==
    cs.pc = "returned" =>
        /\ cs.err = Nil => cancelled
        /\ ~cs.failed => (cancelled /\ cs.err = Nil)

\* The stream reached the end of the log, waited, and returned nil after its
\* context was cancelled.
C3_Witness == cs.pc = "returned" /\ cs.err = Nil /\ cs.waited /\ cancelled

\* C5: the i-th record sent on the stream is the record at offset start+i
\* (counting from 0), and the stream's offset is start plus the number of
\* records sent: nothing is skipped, repeated or reordered.
C5_ConsecutiveOffsets ==
    cs.pc # "idle" =>
        /\ cs.offset = cs.start + Len(sent)
        /\ \A n \in 1..Len(sent) :
              /\ cs.start + n <= Len(log)
              /\ sent[n] = RecordAt(cs.start + n - 1)

\* Two records were delivered on a stream that also had to wait for one.
C5_Witness == Len(sent) >= 2 /\ cs.waited

\* The offsets of the records sent on the stream.
SentOffsets == {sent[n].offset : n \in 1..Len(sent)}

\* C2: under weak fairness of the handler loop, every record appended at an
\* offset at or after the stream's starting offset is eventually sent on the
\* stream, unless the stream is cancelled or ended by a failed Consume or Send.
C2_EveryRecordSent ==
    \A k \in 0..(MaxLog - 1) :
        (cs.pc # "idle" /\ k >= cs.start /\ k < Len(log))
            ~> (k \in SentOffsets \/ cancelled \/ cs.failed)

\* C4: cancellation is observed at the top of every iteration: no iteration
\* that begins with the context done goes on to Consume or Send, so at most
\* one Read and one Send (those of the iteration in progress) happen after
\* the cancellation, and a cancelled stream eventually returns.
C4_CancelObserved ==
    /\ [](/\ cs.pc \in {"authorize", "read", "send"} => ~cs.startedDone
          /\ cs.postReads <= 1
          /\ cs.postSends <= 1)
    /\ (cancelled ~> cs.pc = "returned")

\* The context was cancelled while the stream was waiting at the end of the
\* log, one Read completed after it, and the stream returned.
C4_Witness ==
    cancelled /\ cs.waited /\ cs.postReads = 1 /\ cs.pc = "returned" /\ cs.err = Nil

\* C6: a unary Produce or Consume that reached the commit log called it
\* exactly once and returns what it got: the log's error and no response, or
\* no error and a response carrying exactly the offset (the record) the log
\* returned. No call returns both a response and an error.
C6_LogOutcomeVerbatim ==
    \A i \in Handlers :
        h[i].pc = "done" =>
            /\ ~(h[i].res # NoResponse /\ h[i].err # Nil)
            /\ h[i].calls > 0 =>
                  /\ h[i].calls = 1
                  /\ IF h[i].logErr # Nil
                     THEN h[i].err = h[i].logErr /\ h[i].res = NoResponse
                     ELSE /\ h[i].err = Nil
                          /\ h[i].res # NoResponse
                          /\ h[i].res = h[i].logRet

\* A point read past the end of a non-empty log ended with OffsetOutOfRange.
C6_Witness ==
    /\ h["h1"].pc = "done" /\ h["h1"].op = "Consume"
    /\ h["h1"].logErr = ErrOffsetOutOfRange /\ h["h1"].err = ErrOffsetOutOfRange
    /\ h["h1"].calls = 1 /\ Len(log) > 0

\* The Authorize call handler i makes: Produce (line 66) and Consume (line 82)
\* both pass the wildcard object and consumeAction.
AuthorizeCall(i) == Authorize(h[i].subject, objectWildcard, consumeAction)

\* C7: with an Authorizer configured, the authorization block of Produce and
\* Consume returns Authorize's error unchanged, with no response and no call
\* to the commit log, and otherwise goes on to the commit log; the log is
\* untouched by the block, and a handler reaches Append or Read only through it.
C7_AuthorizeDecides ==
    [][\A i \in Handlers :
        /\ (h[i].pc = "authorize" /\ h'[i] # h[i]) =>
              /\ UNCHANGED <<log, lowest>>
              /\ IF authorizer /\ AuthorizeCall(i) # Nil
                 THEN /\ h'[i].pc = "done"
                      /\ h'[i].err = AuthorizeCall(i)
                      /\ h'[i].res = NoResponse
                      /\ h'[i].calls = 0
                 ELSE h'[i].pc = "log"
        /\ h'[i].calls > h[i].calls => h[i].pc = "log"
      ]_vars

\* A Produce was refused by the Authorizer and left the log alone.
C7_Witness ==
    /\ authorizer
    /\ h["h1"].pc = "done" /\ h["h1"].op = "Produce"
    /\ h["h1"].err = ErrPermissionDenied /\ h["h1"].calls = 0
    /\ Len(log) > 0

\* C10 as claimed: whenever a Consume(o), called after a Produce response
\* acknowledged offset o, returns while o is not truncated away, it returns
\* a record carrying the acknowledged payload.
C10_RoundTrip ==
    [][\A i \in Handlers :
        (/\ h[i].op = "Consume" /\ h[i].pc # "done" /\ h'[i].pc = "done"
         /\ h[i].known /\ h[i].offset >= lowest)
        => /\ h'[i].err = Nil
           /\ h'[i].res # NoResponse
           /\ AckedAt(h[i].offset) = {h'[i].res[1].value}
      ]_vars

\* C10 as amended: the same for every Consume(o) that passed authorization.
C10_RoundTripAuthorized ==
    [][\A i \in Handlers :
        (/\ h[i].op = "Consume" /\ h[i].pc = "log" /\ h'[i].pc = "done"
         /\ h[i].known /\ h[i].offset >= lowest)
        => /\ h'[i].err = Nil
           /\ h'[i].res # NoResponse
           /\ h'[i].res[1].offset = h[i].offset
           /\ AckedAt(h[i].offset) = {h'[i].res[1].value}
      ]_vars

\* A Consume returned the acknowledged record of offset 0 after a second
\* record had been appended.
C10_Witness ==
    /\ h["h1"].pc = "done" /\ h["h1"].op = "Consume" /\ h["h1"].offset = 0
    /\ h["h1"].err = Nil /\ h["h1"].known /\ Len(log) = 2
    /\ h["h1"].res # NoResponse

\* A step of Consume on handler i, and a step of the ConsumeStream loop.
ConsumeStepOf(i) ==
    h[i].op = "Consume" /\ h[i].pc \in {"authorize", "log"} /\ h'[i].pc # h[i].pc
StreamStepTaken == cs.pc \in {"select", "authorize", "read", "send"} /\ cs' # cs

\* Reads leave the log alone: no step of Consume or ConsumeStream changes the
\* log's contents or its lowest and highest offset.
ReadsChangeNothing ==
    [][((\E i \in Handlers : ConsumeStepOf(i)) \/ StreamStepTaken)
          => UNCHANGED <<log, lowest>>]_vars

\* Two finished Consume calls for the same offset, with no Append or Truncate
\* since either returned.
SameRead(i, j) ==
    /\ h[i].pc = "done" /\ h[i].op = "Consume" /\ h[i].fresh
    /\ h[j].pc = "done" /\ h[j].op = "Consume" /\ h[j].fresh
    /\ h[i].offset = h[j].offset

\* C8 as claimed: reads change nothing, and two Consume calls for the same
\* offset with no intervening Append or Truncate return the same result.
C8_ReadsIdempotent ==
    /\ ReadsChangeNothing
    /\ [](\A i, j \in Handlers :
            SameRead(i, j) => (h[i].res = h[j].res /\ h[i].err = h[j].err))

\* C8 as amended: reads change nothing, and two Consume calls for the same
\* offset that both passed authorization, with no intervening Append or
\* Truncate, return the same result.
C8_AuthorizedReadsIdempotent ==
    /\ ReadsChangeNothing
    /\ [](\A i, j \in Handlers :
            (SameRead(i, j) /\ h[i].calls = 1 /\ h[j].calls = 1)
                => (h[i].res = h[j].res /\ h[i].err = h[j].err))

\* Two subjects read offset 0 and got the same record, and the stream
\* delivered it too, with the log still holding its one record.
C8_Witness ==
    /\ SameRead("h1", "h2") /\ h["h1"].offset = 0
    /\ h["h1"].calls = 1 /\ h["h2"].calls = 1
    /\ h["h1"].res # NoResponse /\ h["h1"].res = h["h2"].res
    /\ Len(sent) = 1 /\ Len(log) = 1 /\ lowest = 0

\* The offsets Produce responses carried, in the order the log assigned them.
WasReturned(e) == e.returned
Returned == SelectSeq(assigned, WasReturned)

\* C9 as claimed: the offsets returned by successful appends, in assignment
\* order, are exactly 0, 1, 2, ...
C9_ReturnedOffsetsDense ==
    \A n \in 1..Len(Returned) : Returned[n].offset = n - 1

\* C9 as amended: the offsets the log assigns, in assignment order, are
\* exactly 0, 1, 2, ... with no gap and no reuse, one per record, and every
\* offset a Produce response carries is the one assigned to its record; the
\* offsets returned are therefore pairwise distinct and increasing, with a
\* gap only where an append committed although its caller got Timeout.
C9_AssignedOffsetsDense ==
    /\ Len(assigned) = Len(log)
    /\ \A n \in 1..Len(assigned) : assigned[n].offset = n - 1
    /\ \A p \in acked : p[1] < Len(log) /\ log[p[1] + 1] = p[2]

\* A ProduceStream was answered offset 0 and a concurrent unary Produce
\* offset 1.
C9_Witness ==
    /\ ps.responses = <<0>>
    /\ h["h1"].pc = "done" /\ h["h1"].op = "Produce" /\ h["h1"].res = Response(1)
    /\ Len(Returned) = 2

\* One sequence is a prefix of the other.
Agree(a, b) ==
    \A i \in 1..Min(Len(a), Len(b)) : a[i] = b[i]

\* C11: every node's Log holds exactly the values of its first entries, in
\* sequence-index order, all of them committed (persisted by a quorum and
\* known committed to the node), and the Logs of any two nodes
\* agree on the record at every offset both hold: one is a prefix of the
\* other, and no two nodes hold different records at the same offset.
C11_NodesAgree ==
    /\ \A n \in Nodes :
          /\ Len(cluster.applied[n]) <= cluster.commitIndex[n]
          /\ cluster.commitIndex[n] <= Len(cluster.entries[n])
          /\ \A i \in 1..Len(cluster.applied[n]) :
                /\ cluster.applied[n][i] = cluster.entries[n][i].value
                /\ \E Q \in Quorums : \A m \in Q :
                      /\ Len(cluster.entries[m]) >= i
                      /\ cluster.entries[m][i] = cluster.entries[n][i]
    /\ \A n, m \in Nodes : Agree(cluster.applied[n], cluster.applied[m])

\* A former leader's uncommitted entry was rolled back after a leader change,
\* and two nodes then applied the new leader's two entries.
C11_Witness ==
    /\ \E n, m \in Nodes :
          /\ n # m
          /\ Len(cluster.applied[n]) = 2
          /\ cluster.applied[m] = cluster.applied[n]
    /\ cluster.rolledBack

\* C12 as claimed: a Produce that finishes on a node that is not the leader
\* fails with NotLeader and no response, and the log of a node that is not
\* the leader is never extended.
C12_NonLeaderRejects ==
    [][/\ \A i \in Handlers :
            (/\ h[i].op = "Produce" /\ h[i].pc \in {"authorize", "log"}
             /\ h'[i].pc = "done" /\ ~isLeader)
            => (h'[i].err = ErrNotLeader /\ h'[i].res = NoResponse)
       /\ ~isLeader => log' = log
      ]_vars

\* C12 as amended: the same for every Produce that passed authorization and
\* reached Append on a node that is not the leader.
C12_NonLeaderRejectsAppend ==
    [][/\ \A i \in Handlers :
            (/\ h[i].op = "Produce" /\ h[i].pc = "log"
             /\ h'[i].pc = "done" /\ ~isLeader)
            => (h'[i].err = ErrNotLeader /\ h'[i].res = NoResponse
                /\ h'[i].calls = 1)
       /\ ~isLeader => log' = log
      ]_vars

\* A node that held records as leader lost leadership and rejected a Produce.
C12_Witness ==
    /\ h["h1"].pc = "done" /\ h["h1"].op = "Produce"
    /\ h["h1"].err = ErrNotLeader /\ h["h1"].calls = 1
    /\ ~isLeader /\ Len(log) > 0

\* C13: with an Authorizer configured, Produce is decided by
\* Authorize(subject, "*", "produce") and Consume by
\* Authorize(subject, "*", "consume"): the authorization block refuses the
\* call exactly when that Authorize call returns an error, so no Produce of a
\* subject without the produce grant appends a record.
C13_ActionsMatch ==
    [][\A i \in Handlers :
        /\ (authorizer /\ h[i].pc = "authorize" /\ h'[i] # h[i]) =>
              LET action == IF h[i].op = "Produce" THEN produceAction
                            ELSE consumeAction
              IN (h'[i].pc = "done")
                    <=> (Authorize(h[i].subject, objectWildcard, action) # Nil)
        /\ (authorizer /\ h[i].op = "Produce" /\ h[i].pc = "log"
              /\ h'[i].pc = "done" /\ log' # log)
           => <<h[i].subject, produceAction>> \in policy
      ]_vars

\* The Authorizer refuses the subject of the running stream.
StreamDenied ==
    /\ cs.pc # "idle"
    /\ authorizer
    /\ Authorize(cs.subject, objectWildcard, consumeAction) # Nil

\* C14: with an Authorizer configured, every iteration of ConsumeStream that
\* reads or sends went through Authorize for the stream's subject first
\* (select, then authorize, then read, then send), and an iteration whose
\* Authorize call fails returns that error without reading or sending. So
\* once the Authorizer refuses the subject, an iteration in progress may
\* still finish, but no later iteration reads or sends, and under weak
\* fairness of the loop the stream returns.
C14_AuthorizedEachIteration ==
    /\ [][/\ (cs.pc = "authorize" /\ cs' # cs) =>
                IF StreamDenied
                THEN /\ cs'.pc = "returned"
                     /\ cs'.err = Authorize(cs.subject, objectWildcard, consumeAction)
                     /\ cs'.postReads = cs.postReads
                     /\ sent' = sent
                ELSE cs'.pc = "read"
          /\ (cs'.pc = "read" /\ cs.pc # "read") => cs.pc = "authorize"
          /\ (cs'.pc = "send" /\ cs.pc # "send") => cs.pc = "read"
          /\ (cs'.pc = "authorize" /\ cs.pc # "authorize") => cs.pc = "select"
          /\ sent' # sent => (cs.pc = "send" /\ cs'.pc = "select")
          /\ StreamDenied => StreamDenied'
          /\ (StreamDenied /\ cs.pc \in {"select", "authorize", "returned"})
                => (cs'.pc \in {"select", "authorize", "returned"} /\ sent' = sent)
         ]_vars
    /\ (StreamDenied ~> cs.pc = "returned")

\* A stream delivered a record, its subject was then revoked, and the stream
\* ended with the Authorizer's error.
C14_Witness ==
    /\ Len(sent) >= 1
    /\ StreamDenied
    /\ cs.pc = "returned" /\ cs.err = ErrPermissionDenied

\* C15: the OffsetOutOfRange wait is transient: under weak fairness of the
\* handler loop, once the log reaches past the stream's current offset the
\* stream eventually sends another record, unless it is cancelled or ended by
\* a failed Consume or Send; also when the offset lies below the lowest
\* retained offset after Truncate.
C15_WaitTransient ==
    \A n \in 0..MaxLog :
        (cs.pc # "idle" /\ Len(sent) = n /\ Len(log) > cs.offset)
            ~> (Len(sent) > n \/ cancelled \/ cs.failed)

\* C16: ProduceStream handles one request at a time, in receive order. A
\* request is received only when every earlier request has been answered;
\* a Produce that succeeds appends the request's record and is followed by
\* exactly one Send of the offset it was assigned, which is the answer to the
\* request received last; and with this stream as the only producer on a log
\* that started empty, the offsets sent are 0, 1, 2, ... in order.
C16_OneAtATime ==
    /\ [][/\ ps'.recvd # ps.recvd =>
                /\ ps.pc = "recv"
                /\ ps'.recvd = ps.recvd + 1
                /\ Len(ps.responses) = ps.recvd
          /\ (ps.pc = "append" /\ ps' # ps) =>
                \/ ps'.pc = "returned" /\ ps'.err # Nil
                \/ /\ ps'.pc = "send"
                   /\ log' = Append(log, ps.value)
                   /\ ps'.res = Response(Len(log))
          /\ ps'.responses # ps.responses =>
                /\ ps.pc = "send"
                /\ ps'.pc = "recv"
                /\ ps'.responses = Append(ps.responses, ps.res[1])
                /\ Len(ps'.responses) = ps.recvd
         ]_vars
    /\ [](\A n \in 1..Len(ps.responses) : ps.responses[n] = n - 1)

\* Two requests were answered in order with offsets 0 and 1, and the stream
\* is waiting for a third.
C16_Witness ==
    ps.responses = <<0, 1>> /\ ps.recvd = 2 /\ ps.pc = "recv" /\ Len(log) = 2

\* The log only grows: no step removes or rewrites an appended record.
NoRollback ==
    [][Len(log') >= Len(log) /\ SubSeq(log', 1, Len(log)) = log]_vars

\* C17: ProduceStream returns the first error of Recv, Produce or Send and
\* does nothing afterwards; the records it appended stay in the log. The
\* number of records the stream appended exceeds the number of responses it
\* sent by 0 or 1, and every response sent carries the offset of a record in
\* the log that a Produce acknowledged.
C17_StopsAtFirstError ==
    /\ [][/\ ps.pc = "returned" => ps' = ps
          /\ (ps.pc # "returned" /\ ps'.pc = "returned") =>
                /\ ps'.err # Nil
                /\ ps'.responses = ps.responses
                /\ ps'.recvd = ps.recvd
         ]_vars
    /\ NoRollback
    /\ [](/\ ps.appended - Len(ps.responses) \in {0, 1}
          /\ \A n \in 1..Len(ps.responses) :
                /\ ps.responses[n] < Len(log)
                /\ AckedAt(ps.responses[n]) # {})

\* The stream answered one request, appended the record of a second, and
\* returned because the Send of its response failed.
C17_Witness ==
    /\ ps.pc = "returned" /\ ps.err = ErrSend
    /\ Len(ps.responses) = 1 /\ ps.appended = 2 /\ Len(log) >= 2

====
